---- MODULE Spec2Model ----
(***************************************************************************)
(* A model of the investment back-test of src/simulation_page.py:          *)
(*   - simulate_investment, the per-trial computation (lines 50-85);       *)
(*   - run_simulations, the sampling loop and the batched thread-pool      *)
(*     dispatch (lines 88-109);                                            *)
(*   - the year bucketing and grouping of the results (lines 134-150).     *)
(* Floating-point numbers are modelled as exact rationals.                 *)
(***************************************************************************)
EXTENDS Integers, Sequences, FiniteSets, TLC

\* ------------------------------------------------------------------ bounds
\* Longest price series of the trial specification.
MaxLen == 3
\* Prices of an arbitrary series are drawn from 1..MaxPrice.
MaxPrice == 3
\* Prices of a strictly monotone series are drawn from 1..MaxTrendPrice.
MaxTrendPrice == 9
\* daily_investment is drawn from 1..MaxContribution.
MaxContribution == 2
\* Longest price series of the runner specification; its durations are drawn
\* from 1..MaxDays too.
MaxDays == 4
\* num_simulations is drawn from 1..MaxSims.
MaxSims == 4
\* The batch size of line 100, which is 100 in the source, scaled down so that
\* whole runs of several batches can be enumerated.  Nothing below depends on
\* its value.
batch_size == 2

\* The longest duration, in days, of a row of the results table.
MaxDurationDays == 756

\* ------------------------------------------------------ program constants
\* ThreadPoolExecutor(max_workers=4), line 104.
max_workers == 4
\* The trading days of a year, lines 40-41 and 137.
TradingDays == 252

\* What a call of simulate_investment comes to is a record with a status:
\* "ok" for the result dictionary of lines 77-85, and the two below.
\* Python's None.
None == [status |-> "None"]
\* A numpy operation raised (shape mismatch, index into an empty array).
Raise == [status |-> "raise"]

\* ------------------------------------------------------- exact rationals
Abs(x) == IF x < 0 THEN -x ELSE x

Min(a, b) == IF a < b THEN a ELSE b

Max(a, b) == IF a < b THEN b ELSE a

RECURSIVE GCD(_, _)
GCD(a, b) == IF b = 0 THEN a ELSE GCD(b, a % b)

LCM(a, b) == (a \div GCD(a, b)) * b

\* The rational n/d (d > 0) in lowest terms.
Rat(n, d) ==
    LET g == GCD(Abs(n), d) IN [n |-> n \div g, d |-> d \div g]

RInt(k) == [n |-> k, d |-> 1]

RAdd(a, b) ==
    LET l == LCM(a.d, b.d)
    IN Rat(a.n * (l \div a.d) + b.n * (l \div b.d), l)

RNeg(a) == [n |-> -a.n, d |-> a.d]

RSub(a, b) == RAdd(a, RNeg(b))

RMul(a, b) ==
    LET g1 == GCD(Abs(a.n), b.d)
        g2 == GCD(Abs(b.n), a.d)
    IN [n |-> (a.n \div g1) * (b.n \div g2), d |-> (a.d \div g2) * (b.d \div g1)]

\* a / b for b # 0.
RDiv(a, b) ==
    RMul(a, [n |-> IF b.n < 0 THEN -b.d ELSE b.d, d |-> Abs(b.n)])

RLess(a, b) ==
    LET l == LCM(a.d, b.d)
    IN a.n * (l \div a.d) < b.n * (l \div b.d)

RLeq(a, b) == a = b \/ RLess(a, b)

\* ------------------------------------------------------- numpy operations
\* Python's a[lo:hi] for 0 <= lo, 0 <= hi on a 0-indexed array: the slice is
\* clipped to the array, never an error.
Slice(a, lo, hi) ==
    LET n == Max(0, Min(hi, Len(a)) - lo)
    IN [k \in 1..n |-> a[lo + k]]

\* a[:-1]
ButLast(a) == [k \in 1..(Len(a) - 1) |-> a[k]]

\* np.diff(a) of an integer array
Diff(a) == [k \in 1..(Len(a) - 1) |-> a[k + 1] - a[k]]

RECURSIVE ProdTo(_, _)
ProdTo(a, k) == IF k = 0 THEN RInt(1) ELSE RMul(ProdTo(a, k - 1), a[k])

RECURSIVE SumTo(_, _)
SumTo(a, k) == IF k = 0 THEN RInt(0) ELSE RAdd(SumTo(a, k - 1), a[k])

\* The factors themselves, not their running product.
CumProdUncompounded(a) == [k \in 1..Len(a) |-> a[k]]

\* np.cumprod(a)
CumProd(a) == [k \in 1..Len(a) |-> ProdTo(a, k)]

\* np.cumsum(a)
CumSum(a) == [k \in 1..Len(a) |-> SumTo(a, k)]

\* np.sum(a)
Sum(a) == SumTo(a, Len(a))

\* np.full(n, v)
Full(n, v) == [k \in 1..n |-> v]

\* Whether numpy can broadcast two 1-d arrays of these lengths together.
Broadcastable(m, n) == m = n \/ m = 1 \/ n = 1

\* The length of the broadcast of two broadcastable 1-d arrays.
BroadcastLen(m, n) == IF m = 1 THEN n ELSE IF n = 1 THEN m ELSE m

\* a * b elementwise, with numpy's broadcasting of a length-1 operand.
VMul(a, b) ==
    [k \in 1..BroadcastLen(Len(a), Len(b)) |->
        RMul(IF Len(a) = 1 THEN a[1] ELSE a[k], IF Len(b) = 1 THEN b[1] ELSE b[k])]

\* a - b elementwise, with numpy's broadcasting of a length-1 operand.
VSub(a, b) ==
    [k \in 1..BroadcastLen(Len(a), Len(b)) |->
        RSub(IF Len(a) = 1 THEN a[1] ELSE a[k], IF Len(b) = 1 THEN b[1] ELSE b[k])]

\* a * c for a scalar c
VScale(a, c) == [k \in 1..Len(a) |-> RMul(a[k], c)]

\* 1 + a
VOnePlus(a) == [k \in 1..Len(a) |-> RAdd(RInt(1), a[k])]

\* ------------------------------------------------------------- the fee
\* daily_fee_rate = (1 + annual_fee) ** (1 / 252) - 1 is irrational for almost
\* every rational annual_fee.  An annual fee is therefore carried in root form:
\* the value [per_day |-> q] stands for the annual fee (1 + q)^252 - 1, whose
\* 252nd-root conversion is exactly q.
AnnualFee(n, d) == [per_day |-> Rat(n, d)]

DailyFeeRate(annual_fee) == annual_fee.per_day

\* q |-> (1 + q)^252 - 1 is strictly increasing on q >= 0, so annual fees
\* compare as their roots do.
AnnualFeeLess(a, b) == RLess(a.per_day, b.per_day)

\* The annual fees a trial is run with: none, and two positive ones.
AnnualFees == {AnnualFee(0, 1), AnnualFee(1, 1000), AnnualFee(1, 500)}

\* The leverages a trial is run with (1.0 and 2.0 in the source, and none).
Leverages == {0, 1, 2}

\* ------------------------------------------------------ simulate_investment
\* Lines 60-85: the result of a trial on its price window.  Annualized Return,
\* (1 + total_return) ** (252 / duration_days) - 1, is irrational and no
\* property below reads it: the record leaves it out.
TrialResult(args, simulation_prices) ==
    LET duration_days == args.duration_days
        daily_investment == args.daily_investment
        diffs == Diff(simulation_prices)
        denoms == ButLast(simulation_prices)
        daily_returns == [k \in 1..Len(diffs) |-> Rat(diffs[k], denoms[k])]
        daily_fee_rate == DailyFeeRate(args.annual_fee)
        leveraged_daily_returns == VScale(daily_returns, RInt(args.leverage))
        cumulative_returns == CumProd(VOnePlus(leveraged_daily_returns))
        invested_amounts == CumSum(Full(duration_days, RInt(daily_investment)))
    IN  IF ~Broadcastable(Len(invested_amounts), Len(cumulative_returns))
        THEN Raise
        ELSE
        LET portfolio_values == VMul(invested_amounts, cumulative_returns)
            daily_fees == VScale(portfolio_values, daily_fee_rate)
            net_portfolio_values == VSub(portfolio_values, CumSum(daily_fees))
            total_invested == RInt(daily_investment * duration_days)
        IN  IF Len(net_portfolio_values) = 0
            THEN Raise
            ELSE
            LET total_value == net_portfolio_values[Len(net_portfolio_values)]
                total_fee == Sum(daily_fees)
                total_return == RDiv(RSub(total_value, total_invested), total_invested)
            IN  [status |-> "ok",
                 Start_Date |-> args.start_idx,
                 Duration_Days |-> duration_days,
                 Total_Invested |-> total_invested,
                 Total_Fee |-> total_fee,
                 End_Portfolio_Value |-> total_value,
                 Total_Return |-> total_return]

\* simulate_investment with the first window check off by one and without the
\* second: a window cut short by the end of the series is used as it comes.
simulate_investment_unchecked(args, daily_prices_array) ==
    LET end_idx == args.start_idx + args.duration_days
    IN  IF end_idx > Len(daily_prices_array)
        THEN None
        ELSE TrialResult(args, Slice(daily_prices_array, args.start_idx, end_idx + 1))

\* Lines 50-85.
simulate_investment(args, daily_prices_array) ==
    LET end_idx == args.start_idx + args.duration_days
    IN  IF end_idx >= Len(daily_prices_array)
        THEN None
        ELSE
        LET simulation_prices == Slice(daily_prices_array, args.start_idx, end_idx + 1)
        IN  IF Len(simulation_prices) # args.duration_days + 1
            THEN None
            ELSE TrialResult(args, simulation_prices)

\* ------------------------------------------------------------------ state
VARIABLES
    daily_prices,       \* the price series (line 33), a sequence of positive integers
    calls,              \* the calls of simulate_investment made directly: args and result
    \* run_simulations: its parameters (line 88)
    num_simulations,
    min_duration_days,
    max_duration_days,
    daily_investment,
    annual_fee,
    leverage,
    \* run_simulations: its locals
    pc,                     \* where the runner stands
    possible_start_indices, \* line 90
    start_idx,              \* line 95, the start index of the request being drawn
    simulation_args,        \* line 93
    i,                      \* line 102, the offset of the current batch
    batch_args,             \* line 103
    work_queue,             \* the executor's queue: positions of batch_args not yet taken
    running,                \* per worker thread: the position it is computing, or 0
    futures,                \* per position of batch_args: its result, or Pending
    simulation_results,     \* line 99
    progress_values,        \* the values passed to progress_bar.progress, in order
    error,                  \* the exception that ended the run, or NoError
    \* history
    draws,                  \* how many random draws the run has made
    dispatched,             \* per request of simulation_args: how often it was submitted
    \* the aggregation of lines 134-150
    agg_pc,                 \* where the aggregation stands
    results_df,             \* the rows: 'Duration (Days)' and 'Strategy'
    duration_years,         \* the column 'Duration (Years)', one entry per row
    summary_table           \* the groups of the groupby

simVars == <<calls>>

paramVars ==
    <<num_simulations, min_duration_days, max_duration_days,
      daily_investment, annual_fee, leverage>>

runVars ==
    <<pc, possible_start_indices, start_idx, simulation_args, i, batch_args,
      work_queue, running, futures, simulation_results, progress_values, error,
      draws, dispatched>>

aggVars == <<agg_pc, results_df, duration_years, summary_table>>

vars == <<daily_prices, simVars, paramVars, runVars, aggVars>>

\* A future that holds no result yet.
Pending == [status |-> "pending"]

NoError == "none"

\* The runner before run_simulations is called.
RunnerIdle ==
    /\ pc = "idle"
    /\ possible_start_indices = {}
    /\ start_idx = 0
    /\ simulation_args = <<>>
    /\ i = 0
    /\ batch_args = <<>>
    /\ work_queue = <<>>
    /\ running = [w \in 1..max_workers |-> 0]
    /\ futures = <<>>
    /\ simulation_results = <<>>
    /\ progress_values = <<>>
    /\ error = NoError
    /\ draws = 0
    /\ dispatched = <<>>

\* The aggregation before the results exist.
AggIdle ==
    /\ agg_pc = "idle"
    /\ results_df = <<>>
    /\ duration_years = <<>>
    /\ summary_table = {}

\* --------------------------------------------------- the trial specification
\* Every series of 1..MaxLen prices over 1..MaxPrice.
ArbitrarySeries ==
    UNION {[1..n -> 1..MaxPrice] : n \in 1..MaxLen}

StrictlyIncreasing(s) == \A k \in 1..(Len(s) - 1) : s[k] < s[k + 1]

StrictlyDecreasing(s) == \A k \in 1..(Len(s) - 1) : s[k] > s[k + 1]

\* Every strictly monotone series of 2..MaxLen prices over 1..MaxTrendPrice.
TrendSeries ==
    {s \in UNION {[1..n -> 1..MaxTrendPrice] : n \in 2..MaxLen} :
        StrictlyIncreasing(s) \/ StrictlyDecreasing(s)}

PriceSeries == ArbitrarySeries \cup TrendSeries

\* The trial requests: the args tuple of line 51 without the price array,
\* which is passed beside it.
TrialRequests ==
    [start_idx : 0..(MaxLen - 1), duration_days : 1..MaxLen,
     daily_investment : 1..MaxContribution, annual_fee : AnnualFees,
     leverage : Leverages]

Call(args) == [args |-> args, result |-> simulate_investment(args, daily_prices)]

InitSim ==
    /\ daily_prices \in PriceSeries
    /\ calls = <<>>
    /\ num_simulations = 0
    /\ min_duration_days = 0
    /\ max_duration_days = 0
    /\ daily_investment = 0
    /\ annual_fee = AnnualFee(0, 1)
    /\ leverage = 0
    /\ RunnerIdle
    /\ AggIdle

\* A first trial on the series.
SimulateTrial(args) ==
    /\ calls = <<>>
    /\ calls' = <<Call(args)>>
    /\ UNCHANGED <<daily_prices, paramVars, runVars, aggVars>>

\* The same trial again with another annual fee, all else held fixed.
SimulateOtherFee(fee) ==
    /\ Len(calls) = 1
    /\ fee # calls[1].args.annual_fee
    /\ calls' = Append(calls, Call([calls[1].args EXCEPT !.annual_fee = fee]))
    /\ UNCHANGED <<daily_prices, paramVars, runVars, aggVars>>

\* The same trial again with another leverage, all else held fixed.
SimulateOtherLeverage(lev) ==
    /\ Len(calls) = 1
    /\ lev # calls[1].args.leverage
    /\ calls' = Append(calls, Call([calls[1].args EXCEPT !.leverage = lev]))
    /\ UNCHANGED <<daily_prices, paramVars, runVars, aggVars>>

NextSim ==
    \/ \E args \in TrialRequests : SimulateTrial(args)
    \/ \E fee \in AnnualFees : SimulateOtherFee(fee)
    \/ \E lev \in Leverages : SimulateOtherLeverage(lev)

SpecSim == InitSim /\ [][NextSim]_vars

\* -------------------------------------------------- the runner specification
\* The price series of a run: only its length and the results computed from it
\* matter to the runner, so one series per length, rising by 1 a day.
Ramp(n) == [k \in 1..n |-> k]

RunSeries == {Ramp(n) : n \in 1..MaxDays}

\* The two strategies of lines 128 and 131: annual fee and leverage.
Strategies ==
    {[annual_fee |-> AnnualFee(1, 1000), leverage |-> 1],
     [annual_fee |-> AnnualFee(1, 500), leverage |-> 2]}

\* np.arange(0, total_days - max_duration_days): one start index too many.
PossibleStartIndicesOffByOne(total_days, max_days) ==
    0..(total_days - max_days - 1)

\* np.arange(0, total_days - max_duration_days - 1), line 90.
PossibleStartIndices(total_days, max_days) ==
    0..(total_days - max_days - 2)

\* simulation_args[i:i + batch_size] without its last request.
BatchOfShort(args_list, offset) == Slice(args_list, offset, offset + batch_size - 1)

\* simulation_args[i:i + batch_size], line 103.
BatchOf(args_list, offset) == Slice(args_list, offset, offset + batch_size)

\* [res for res in batch_results if res is not None], line 106.
RECURSIVE NotNone(_)
NotNone(results) ==
    IF results = <<>> THEN <<>>
    ELSE IF Head(results) = None THEN NotNone(Tail(results))
         ELSE <<Head(results)>> \o NotNone(Tail(results))

\* The run fails with an exception.
Fail(exception) ==
    /\ pc' = "raised"
    /\ error' = exception

InitRun ==
    /\ daily_prices \in RunSeries
    /\ calls = <<>>
    /\ num_simulations \in 1..MaxSims
    /\ min_duration_days \in 1..MaxDays
    /\ max_duration_days \in 1..MaxDays
    /\ daily_investment = 1
    /\ \E s \in Strategies : annual_fee = s.annual_fee /\ leverage = s.leverage
    /\ RunnerIdle
    /\ AggIdle

\* Lines 89-93: the call of run_simulations, up to the sampling loop.
Enter ==
    /\ pc = "idle"
    /\ possible_start_indices' = PossibleStartIndices(Len(daily_prices), max_duration_days)
    /\ simulation_args' = <<>>
    /\ dispatched' = <<>>
    /\ pc' = IF num_simulations > 0 THEN "choice" ELSE "results"
    /\ UNCHANGED <<daily_prices, simVars, paramVars, aggVars, start_idx, i, batch_args,
                   work_queue, running, futures, simulation_results,
                   progress_values, error, draws>>

\* Line 95: np.random.choice raises ValueError on an empty array.
SampleStart ==
    /\ pc = "choice"
    /\ IF possible_start_indices = {}
       THEN /\ Fail("ValueError")
            /\ UNCHANGED <<start_idx, draws>>
       ELSE /\ start_idx' \in possible_start_indices
            /\ draws' = draws + 1
            /\ pc' = "randint"
            /\ UNCHANGED error
    /\ UNCHANGED <<daily_prices, simVars, paramVars, aggVars, possible_start_indices,
                   simulation_args, i, batch_args, work_queue, running, futures,
                   simulation_results, progress_values, dispatched>>

\* Lines 96-97: np.random.randint(low, high) raises ValueError when low >= high.
SampleDuration ==
    /\ pc = "randint"
    /\ IF min_duration_days >= max_duration_days + 1
       THEN /\ Fail("ValueError")
            /\ UNCHANGED <<simulation_args, dispatched, draws>>
       ELSE \E duration_days \in min_duration_days..max_duration_days :
            /\ simulation_args' =
                 Append(simulation_args,
                        [start_idx |-> start_idx, duration_days |-> duration_days,
                         daily_investment |-> daily_investment,
                         annual_fee |-> annual_fee, leverage |-> leverage])
            /\ dispatched' = Append(dispatched, 0)
            /\ draws' = draws + 1
            /\ pc' = IF Len(simulation_args) + 1 < num_simulations
                     THEN "choice" ELSE "results"
            /\ UNCHANGED error
    /\ UNCHANGED <<daily_prices, simVars, paramVars, aggVars, possible_start_indices,
                   start_idx, i, batch_args, work_queue, running, futures,
                   simulation_results, progress_values>>

\* Lines 99-102: the results list, and the first offset of the batch loop.
StartBatches ==
    /\ pc = "results"
    /\ simulation_results' = <<>>
    /\ i' = 0
    /\ pc' = "loop"
    /\ UNCHANGED <<daily_prices, simVars, paramVars, aggVars, possible_start_indices,
                   start_idx, simulation_args, batch_args, work_queue, running,
                   futures, progress_values, error, draws, dispatched>>

\* Lines 102-105: the next batch is sliced and executor.map submits every
\* request of it to the pool.
Dispatch ==
    /\ pc = "loop"
    /\ i < Len(simulation_args)
    /\ batch_args' = BatchOf(simulation_args, i)
    /\ work_queue' = [k \in 1..Len(batch_args') |-> k]
    /\ futures' = [k \in 1..Len(batch_args') |-> Pending]
    /\ dispatched' =
         [k \in 1..Len(dispatched) |->
            IF i < k /\ k <= i + Len(batch_args')
            THEN dispatched[k] + 1 ELSE dispatched[k]]
    /\ pc' = "map"
    /\ UNCHANGED <<daily_prices, simVars, paramVars, aggVars, possible_start_indices,
                   start_idx, simulation_args, i, running, simulation_results,
                   progress_values, error, draws>>

\* A worker thread of the pool takes the next request off the queue.
WorkerTake(w) ==
    /\ pc = "map"
    /\ running[w] = 0
    /\ work_queue # <<>>
    /\ running' = [running EXCEPT ![w] = Head(work_queue)]
    /\ work_queue' = Tail(work_queue)
    /\ UNCHANGED <<daily_prices, simVars, paramVars, aggVars, pc, possible_start_indices,
                   start_idx, simulation_args, i, batch_args, futures,
                   simulation_results, progress_values, error, draws, dispatched>>

\* A worker thread runs simulate_investment on its request and sets the future.
WorkerRun(w) ==
    /\ pc = "map"
    /\ running[w] # 0
    /\ futures' = [futures EXCEPT ![running[w]] =
                     simulate_investment(batch_args[running[w]], daily_prices)]
    /\ running' = [running EXCEPT ![w] = 0]
    /\ UNCHANGED <<daily_prices, simVars, paramVars, aggVars, pc, possible_start_indices,
                   start_idx, simulation_args, i, batch_args, work_queue,
                   simulation_results, progress_values, error, draws, dispatched>>

\* Lines 105-106: list(executor.map(...)) has every result of the batch, in the
\* order of batch_args (an exception of a worker is raised again here), and the
\* runner extends simulation_results with those that are not None.
Collect ==
    /\ pc = "map"
    /\ \A k \in 1..Len(futures) : futures[k] # Pending
    /\ IF \E k \in 1..Len(futures) : futures[k] = Raise
       THEN /\ Fail("numpy")
            /\ UNCHANGED simulation_results
       ELSE /\ simulation_results' = simulation_results \o NotNone(futures)
            /\ pc' = "progress"
            /\ UNCHANGED error
    /\ UNCHANGED <<daily_prices, simVars, paramVars, aggVars, possible_start_indices,
                   start_idx, simulation_args, i, batch_args, work_queue, running,
                   futures, progress_values, draws, dispatched>>

\* Line 107: the progress value is reported; streamlit's progress raises
\* StreamlitAPIException for a value outside [0.0, 1.0].  Otherwise the loop
\* moves to the next offset.
ReportProgress ==
    /\ pc = "progress"
    /\ LET value == Rat(i + batch_size, Len(simulation_args))
       IN  /\ progress_values' = Append(progress_values, value)
           /\ IF RLess(value, RInt(0)) \/ RLess(RInt(1), value)
              THEN /\ Fail("StreamlitAPIException")
                   /\ UNCHANGED i
              ELSE /\ i' = i + batch_size
                   /\ pc' = "loop"
                   /\ UNCHANGED error
    /\ UNCHANGED <<daily_prices, simVars, paramVars, aggVars, possible_start_indices,
                   start_idx, simulation_args, batch_args, work_queue, running,
                   futures, simulation_results, draws, dispatched>>

\* Line 109: the loop is over and simulation_results is returned.
Return ==
    /\ pc = "loop"
    /\ i >= Len(simulation_args)
    /\ pc' = "done"
    /\ UNCHANGED <<daily_prices, simVars, paramVars, aggVars, possible_start_indices,
                   start_idx, simulation_args, i, batch_args, work_queue, running,
                   futures, simulation_results, progress_values, error, draws,
                   dispatched>>

NextRun ==
    \/ Enter
    \/ SampleStart
    \/ SampleDuration
    \/ StartBatches
    \/ Dispatch
    \/ \E w \in 1..max_workers : WorkerTake(w)
    \/ \E w \in 1..max_workers : WorkerRun(w)
    \/ Collect
    \/ ReportProgress
    \/ Return

SpecRun == InitRun /\ [][NextRun]_vars

\* ------------------------------------------------ the aggregation specification
\* numpy's round of n / m for integers n >= 0, m > 0, with a tie rounded up.
RoundHalfUp(n, m) ==
    IF 2 * (n % m) < m THEN n \div m ELSE (n \div m) + 1

\* numpy's round of n / m for integers n >= 0, m > 0 (Series.round, line 137):
\* to the nearest integer, a tie to the even one.
RoundHalfEven(n, m) ==
    IF 2 * (n % m) < m THEN n \div m
    ELSE IF 2 * (n % m) > m THEN (n \div m) + 1
    ELSE IF (n \div m) % 2 = 0 THEN n \div m
    ELSE (n \div m) + 1

\* The durations a run draws: min_duration_days is at least a year (lines 38, 40).
RowDurations == TradingDays..MaxDurationDays

\* Lines 134-136: the rows of the first run, then those of the second, each
\* tagged with its strategy; here one row of each.
InitAgg ==
    /\ daily_prices = <<>>
    /\ calls = <<>>
    /\ num_simulations = 0
    /\ min_duration_days = 0
    /\ max_duration_days = 0
    /\ daily_investment = 0
    /\ annual_fee = AnnualFee(0, 1)
    /\ leverage = 0
    /\ RunnerIdle
    /\ agg_pc = "frame"
    /\ \E d1, d2 \in RowDurations :
         results_df = <<[Duration_Days |-> d1, Strategy |-> "S&P 500"],
                        [Duration_Days |-> d2, Strategy |-> "Leveraged S&P 500"]>>
    /\ duration_years = <<>>
    /\ summary_table = {}

\* Line 137: the column 'Duration (Years)'.
AddDurationYears ==
    /\ agg_pc = "frame"
    /\ duration_years' =
         [k \in 1..Len(results_df) |->
            RoundHalfEven(results_df[k].Duration_Days, TradingDays)]
    /\ agg_pc' = "bucketed"
    /\ UNCHANGED <<daily_prices, simVars, paramVars, runVars, results_df, summary_table>>

\* Lines 142-150: groupby(['Duration (Years)', 'Strategy']); a group is its key
\* and the rows under it.
GroupBy ==
    /\ agg_pc = "bucketed"
    /\ summary_table' =
         {[Duration_Years |-> duration_years[k],
           Strategy |-> results_df[k].Strategy,
           rows |-> {j \in 1..Len(results_df) :
                       /\ duration_years[j] = duration_years[k]
                       /\ results_df[j].Strategy = results_df[k].Strategy}] :
            k \in 1..Len(results_df)}
    /\ agg_pc' = "grouped"
    /\ UNCHANGED <<daily_prices, simVars, paramVars, runVars, results_df, duration_years>>

NextAgg ==
    \/ AddDurationYears
    \/ GroupBy

SpecAgg == InitAgg /\ [][NextAgg]_vars

\* ------------------------------------------- properties of simulate_investment
\* The price window [start_idx, start_idx + duration_days] of a call.
WindowOf(c) ==
    Slice(daily_prices, c.args.start_idx, c.args.start_idx + c.args.duration_days + 1)

IsRecord(result) == result.status = "ok"

FeeIsZero(fee) == fee = AnnualFee(0, 1)

\* The growth factor p_t / p_(t-1) of day t of a window w (t in 1..Len(w)-1).
GrowthFactors(w) == [t \in 1..(Len(w) - 1) |-> Rat(w[t + 1], w[t])]

\* The leveraged factor 1 + leverage * r_t of day t of a window w.
LeveragedFactors(w, lev) ==
    [t \in 1..(Len(w) - 1) |->
        RAdd(RInt(1), RMul(RInt(lev), Rat(w[t + 1] - w[t], w[t])))]

\* The product of the factors of days k..Len(f).
RECURSIVE ProdFrom(_, _)
ProdFrom(f, k) == IF k > Len(f) THEN RInt(1) ELSE RMul(f[k], ProdFrom(f, k + 1))

\* The sum over the contributions k = 1..n of daily_investment grown by the
\* factors of the days from k to the end of the window.
RECURSIVE PerContributionValue(_, _, _)
PerContributionValue(f, contribution, k) ==
    IF k > Len(f) THEN RInt(0)
    ELSE RAdd(RMul(RInt(contribution), ProdFrom(f, k)),
              PerContributionValue(f, contribution, k + 1))

\* C1: a request with start_idx >= 0, duration_days > 0 and
\* start_idx + duration_days >= len(prices) gets None: the call never raises
\* and never computes a result from a window of fewer than duration_days + 1
\* prices.
C1_BoundaryRejection ==
    \A k \in 1..Len(calls) :
        LET c == calls[k] IN
        /\ c.result # Raise
        /\ c.args.start_idx + c.args.duration_days >= Len(daily_prices)
              => c.result = None
        /\ IsRecord(c.result) => Len(WindowOf(c)) = c.args.duration_days + 1

\* C1's case: a request that ends exactly one past the last price was rejected.
C1_Witness ==
    \E k \in 1..Len(calls) :
        /\ calls[k].args.start_idx + calls[k].args.duration_days = Len(daily_prices)
        /\ calls[k].args.start_idx < Len(daily_prices)
        /\ calls[k].result = None

\* C3: with no fee, end_value is the sum over the contributions of
\* daily_investment grown only by the leveraged factors of the days from the
\* contribution's own day to the end of the window.
C3_PerContributionCompounding ==
    \A k \in 1..Len(calls) :
        LET c == calls[k] IN
        (IsRecord(c.result) /\ FeeIsZero(c.args.annual_fee))
            => c.result.End_Portfolio_Value =
                 PerContributionValue(LeveragedFactors(WindowOf(c), c.args.leverage),
                                      c.args.daily_investment, 1)

\* C4: of two trials that differ in the annual fee alone, the one with the
\* strictly larger fee has the strictly smaller end_value and the strictly
\* larger total_fee.
C4_FeeMonotonicity ==
    \A j, k \in 1..Len(calls) :
        LET a == calls[j]
            b == calls[k]
        IN  (/\ IsRecord(a.result) /\ IsRecord(b.result)
             /\ b.args = [a.args EXCEPT !.annual_fee = b.args.annual_fee]
             /\ AnnualFeeLess(a.args.annual_fee, b.args.annual_fee))
            => /\ RLess(b.result.End_Portfolio_Value, a.result.End_Portfolio_Value)
               /\ RLess(a.result.Total_Fee, b.result.Total_Fee)

\* C5: of two trials that differ in the leverage alone, 1 against 2, leverage 2
\* has the strictly larger total_return on a strictly increasing window and the
\* strictly smaller one on a strictly decreasing window.
C5_LeverageAmplification ==
    \A j, k \in 1..Len(calls) :
        LET a == calls[j]
            b == calls[k]
        IN  (/\ IsRecord(a.result) /\ IsRecord(b.result)
             /\ a.args.leverage = 1
             /\ b.args = [a.args EXCEPT !.leverage = 2])
            => /\ StrictlyIncreasing(WindowOf(a))
                    => RLess(a.result.Total_Return, b.result.Total_Return)
               /\ StrictlyDecreasing(WindowOf(a))
                    => RLess(b.result.Total_Return, a.result.Total_Return)

\* C6: with leverage 1 and no fee, on a strictly increasing window end_value is
\* daily_investment * duration_days times the product of the growth factors
\* p_t / p_(t-1) of the window, and total_fee is 0.
C6_ZeroFeeClosedForm ==
    \A k \in 1..Len(calls) :
        LET c == calls[k] IN
        (/\ IsRecord(c.result)
         /\ c.args.leverage = 1
         /\ FeeIsZero(c.args.annual_fee)
         /\ StrictlyIncreasing(WindowOf(c)))
        => /\ c.result.End_Portfolio_Value =
                 RMul(RInt(c.args.daily_investment * c.args.duration_days),
                      ProdFrom(GrowthFactors(WindowOf(c)), 1))
           /\ c.result.Total_Fee = RInt(0)

\* C6's case: a trial of two days or more on a strictly increasing window, with
\* leverage 1 and no fee, returned a result.
C6_Witness ==
    \E k \in 1..Len(calls) :
        /\ IsRecord(calls[k].result)
        /\ calls[k].args.leverage = 1
        /\ FeeIsZero(calls[k].args.annual_fee)
        /\ calls[k].args.duration_days >= 2
        /\ StrictlyIncreasing(WindowOf(calls[k]))

\* ----------------------------------------------- properties of run_simulations
\* The configuration leaves no start index to draw from, or no duration.
ConfigInvalid ==
    \/ max_duration_days >= Len(daily_prices)
    \/ min_duration_days > max_duration_days

\* The feasible start range is not empty and the duration range is not either.
ConfigFeasible ==
    /\ Len(daily_prices) - max_duration_days - 1 >= 1
    /\ min_duration_days <= max_duration_days

IsNotNone(result) == result # None

\* What simulate_investment gives for each request of a list, in order.
ResultsOf(args_list) ==
    [k \in 1..Len(args_list) |-> simulate_investment(args_list[k], daily_prices)]

\* How many batches the sampled requests make.
NumBatches == (Len(simulation_args) + batch_size - 1) \div batch_size

\* C2: with max_duration_days >= len(prices) or min_duration_days >
\* max_duration_days the run fails before any start index or duration is drawn
\* and before any trial is dispatched, and it returns no results.
C2_FailFastConfiguration ==
    ConfigInvalid =>
        /\ draws = 0
        /\ simulation_args = <<>>
        /\ pc \in {"idle", "choice", "raised"}

\* C8: every sampled request is dispatched in exactly one batch, only the runner
\* writes simulation_results, one finished batch at a time with every worker
\* idle, and the returned results are the records of exactly the sampled
\* requests whose simulation is not None.
C8_ExactlyOnceCollection ==
    /\ [](/\ \A k \in 1..Len(dispatched) : dispatched[k] <= 1
          /\ pc = "done" =>
               /\ \A k \in 1..Len(dispatched) : dispatched[k] = 1
               /\ Len(dispatched) = Len(simulation_args)
               /\ simulation_results = SelectSeq(ResultsOf(simulation_args), IsNotNone))
    /\ [][simulation_results' # simulation_results =>
            /\ pc = "map" /\ pc' = "progress"
            /\ work_queue = <<>>
            /\ \A w \in 1..max_workers : running[w] = 0
            /\ simulation_results' = simulation_results \o SelectSeq(futures, IsNotNone)]_vars

\* C8's case: a run of more than one batch returned a record for every request.
C8_Witness ==
    /\ pc = "done"
    /\ Len(simulation_args) > batch_size
    /\ Len(simulation_results) = Len(simulation_args)

\* C9: with a feasible configuration every sampled request has
\* 0 <= start_idx and start_idx + duration_days <= len(prices) - 2, no trial
\* comes back None, and the returned list has num_simulations entries.
C9_NoInvalidTrial ==
    ConfigFeasible =>
        /\ \A k \in 1..Len(simulation_args) :
             /\ 0 <= simulation_args[k].start_idx
             /\ simulation_args[k].start_idx + simulation_args[k].duration_days
                  <= Len(daily_prices) - 2
        /\ \A k \in 1..Len(futures) : futures[k] # None /\ futures[k] # Raise
        /\ pc = "done" => Len(simulation_results) = num_simulations

\* C9's case: a run returned, and one of its windows ends on the last price but
\* one.
C9_Witness ==
    /\ pc = "done"
    /\ ConfigFeasible
    /\ Len(simulation_results) = num_simulations
    /\ \E k \in 1..Len(simulation_args) :
         simulation_args[k].start_idx + simulation_args[k].duration_days
            = Len(daily_prices) - 2

\* C10: every progress value reported is in [0, 1], the values never decrease,
\* and a value is 1 exactly when it is reported after the last batch.
C10_ProgressFraction ==
    \A k \in 1..Len(progress_values) :
        /\ RLeq(RInt(0), progress_values[k])
        /\ RLeq(progress_values[k], RInt(1))
        /\ k > 1 => RLeq(progress_values[k - 1], progress_values[k])
        /\ progress_values[k] = RInt(1) <=> k = NumBatches

\* -------------------------------------------------- properties of the bucketing
\* The distance of a row's day count from its bucket's year, doubled.
TwiceOff(k) == Abs(2 * results_df[k].Duration_Days - 2 * TradingDays * duration_years[k])

\* The group of the summary table that holds row k.
GroupedUnderItsYear(k) ==
    \E g \in summary_table :
        /\ g.Duration_Years = duration_years[k]
        /\ g.Strategy = results_df[k].Strategy
        /\ k \in g.rows

\* C7 as stated: every row is grouped under the integer year nearest to
\* duration_days / 252, and a tie, duration_days = 252 * y + 126, goes up to
\* y + 1.
C7_RoundHalfUp ==
    \A k \in 1..Len(duration_years) :
        /\ TwiceOff(k) <= TradingDays
        /\ TwiceOff(k) = TradingDays
             => TradingDays * duration_years[k] > results_df[k].Duration_Days
        /\ agg_pc = "grouped" => GroupedUnderItsYear(k)

\* C7 as amended: every row is grouped under the integer year nearest to
\* duration_days / 252, and a tie goes to the even one of the two years.
C7_RoundHalfEven ==
    \A k \in 1..Len(duration_years) :
        /\ TwiceOff(k) <= TradingDays
        /\ TwiceOff(k) = TradingDays => duration_years[k] % 2 = 0
        /\ agg_pc = "grouped" => GroupedUnderItsYear(k)

\* C7's case: a row of 630 days, a tie between 2 and 3 years, is grouped.
C7_Witness ==
    /\ agg_pc = "grouped"
    /\ \E k \in 1..Len(results_df) :
         /\ results_df[k].Duration_Days = 2 * TradingDays + TradingDays \div 2
         /\ duration_years[k] = 2
         /\ GroupedUnderItsYear(k)

====
